---- MODULE Spec2Model ----
(***************************************************************************)
(* A model of pygenomics/coretype/tree.py (class TreeNode): the tree of    *)
(* nodes linked by `up` and `children`, its traversals, its queries        *)
(* (common ancestor, distance) and its in-place mutations (add_child,      *)
(* remove_child, detach, delete, prune, set_outgroup).                     *)
(*                                                                         *)
(* Node objects are the numbers in Nodes; None is 0.      A branch length   *)
(* (a Python float) is an integer number of 1/Unit, so that 1.0 is Unit    *)
(* and every halving done by set_outgroup within MaxReroot calls is exact. *)
(* The attribute `collapsed` is False in every node the code can build     *)
(* (collapse() assigns the attribute `collapse`, not `collapsed`), so      *)
(* is_leaf is "has no children".                                           *)
(***************************************************************************)
EXTENDS Integers, Sequences, FiniteSets, TLC

MaxNodes == 5
MaxReroot == 1
MaxTopoNodes == 4
MaxTopoCalls == 2
MaxPrune == 1
MaxSel == 2
MaxPopulate == 2
MaxPopNodes == 5

Nodes == 1..(MaxNodes + MaxReroot)
None == 0
Unit == 2 ^ MaxReroot
NoName == "NoName"
NoArg == -1

VARIABLES up, children, dist, name, alloc, last, pre, calls

vars == <<up, children, dist, name, alloc, last, pre, calls>>

(***************************************************************************)
(* Helpers on sequences and sets.                                          *)
(***************************************************************************)
Range(s) == {s[i] : i \in 1..Len(s)}

Count(s, x) == Cardinality({i \in 1..Len(s) : s[i] = x})

Min(S) == CHOOSE x \in S : \A y \in S : x <= y

RECURSIVE SortedSeq(_)
SortedSeq(S) == IF S = {} THEN <<>> ELSE <<Min(S)>> \o SortedSeq(S \ {Min(S)})

RECURSIVE Sum(_, _)
Sum(f, S) == IF S = {} THEN 0 ELSE LET x == CHOOSE y \in S : TRUE IN f[x] + Sum(f, S \ {x})

\* list.remove(x): drops the first occurrence of x
RemoveFirst(s, x) ==
    LET i == Min({j \in 1..Len(s) : s[j] = x})
    IN SubSeq(s, 1, i - 1) \o SubSeq(s, i + 1, Len(s))

(***************************************************************************)
(* The object graph as one value, the form the operations below take and   *)
(* return.                                                                 *)
(***************************************************************************)
Cur == [up |-> up, children |-> children, dist |-> dist]

\* the last call made: the operation, its receiver and arguments, what it
\* returned (a node, a number, a sequence or a set) and the error it raised
NoLast ==
    [op |-> "init", self |-> None, arg |-> None, names |-> {}, nodes |-> {}, method |-> "",
     flag |-> FALSE, dist |-> [kind |-> "none", val |-> 0],
     support |-> [kind |-> "none", val |-> 0], node |-> None, val |-> 0, seq |-> <<>>, set |-> {}, err |-> ""]

(***************************************************************************)
(* Traversal.                                                              *)
(***************************************************************************)
\* while len(tovisit)>0: current = tovisit.pop(0); yield; tovisit.extend(children)
RECURSIVE preorder_loop(_, _)
preorder_loop(t, tovisit) ==
    IF Len(tovisit) = 0 THEN <<>>
    ELSE LET current == Head(tovisit)
         IN <<current>> \o preorder_loop(t, Tail(tovisit) \o t.children[current])

iter_descendants_preorder(t, self) == preorder_loop(t, <<self>>)

\* the bug of descending into the last unvisited child instead of the first
RECURSIVE postorder_loop_last(_, _, _, _, _)
postorder_loop_last(t, current, end, visited_childs, out) ==
    IF current = end THEN out
    ELSE LET unvisited == SelectSeq(t.children[current], LAMBDA c : c \notin visited_childs)
         IN IF Len(unvisited) > 0
            THEN postorder_loop_last(t, unvisited[Len(unvisited)], end, visited_childs, out)
            ELSE postorder_loop_last(t, t.up[current], end, visited_childs \cup {current},
                                     Append(out, current))

\* while current is not end: descend into the first child not yet visited, or
\* mark current as visited, yield it and go up
RECURSIVE postorder_loop(_, _, _, _, _)
postorder_loop(t, current, end, visited_childs, out) ==
    IF current = end THEN out
    ELSE LET unvisited == SelectSeq(t.children[current], LAMBDA c : c \notin visited_childs)
         IN IF Len(unvisited) > 0
            THEN postorder_loop(t, Head(unvisited), end, visited_childs, out)
            ELSE postorder_loop(t, t.up[current], end, visited_childs \cup {current},
                                Append(out, current))

iter_descendants_postorder(t, self) == postorder_loop(t, self, t.up[self], {}, <<>>)

is_leaf(t, n) == Len(t.children[n]) = 0

\* iter_leaves filters the preorder traversal; get_leaves lists it
get_leaves(t, self) == SelectSeq(iter_descendants_preorder(t, self), LAMBDA n : is_leaf(t, n))

\* __len__ : the number of leaves; the truth value of a node in `if node:`
len(t, self) == Len(get_leaves(t, self))

Truthy(t, n) == n /= None /\ len(t, n) /= 0

(***************************************************************************)
(* Queries.                                                                *)
(***************************************************************************)
RECURSIVE gca_loop(_, _, _, _, _)
gca_loop(t, targets, nodes_bellow, current, prev_node) ==
    IF current = None THEN None
    ELSE LET new_nodes ==
                 UNION {Range(iter_descendants_preorder(t, s)) :
                            s \in {x \in Range(t.children[current]) : x /= prev_node}}
                 \cup {current}
             below == nodes_bellow \cup new_nodes
         IN IF targets \subseteq below THEN current
            ELSE gca_loop(t, targets, below, t.up[current], current)

\* the bug of forgetting `+[current]` in new_nodes
RECURSIVE gca_loop_skip(_, _, _, _, _)
gca_loop_skip(t, targets, nodes_bellow, current, prev_node) ==
    IF current = None THEN None
    ELSE LET new_nodes ==
                 UNION {Range(iter_descendants_preorder(t, s)) :
                            s \in {x \in Range(t.children[current]) : x /= prev_node}}
             below == nodes_bellow \cup new_nodes
         IN IF targets \subseteq below THEN current
            ELSE gca_loop_skip(t, targets, below, t.up[current], current)

get_common_ancestor_skip(t, self, target_nodes) ==
    gca_loop_skip(t, {self} \cup target_nodes, {self}, self, self)

get_common_ancestor(t, self, target_nodes) ==
    gca_loop(t, {self} \cup target_nodes, {self}, self, self)

\* while current != ancestor: dist += current.dist; current = current.up
RECURSIVE up_sum(_, _, _)
up_sum(t, current, ancestor) ==
    IF current = ancestor THEN 0
    ELSE t.dist[current] + up_sum(t, t.up[current], ancestor)

\* the bug of walking up from self alone
get_distance_self_only(t, self, target) ==
    LET ancestor == get_common_ancestor(t, self, {target})
    IN IF ancestor = None THEN [err |-> "TreeError", val |-> 0]
       ELSE [err |-> "", val |-> up_sum(t, self, ancestor)]

get_distance(t, self, target) ==
    LET ancestor == get_common_ancestor(t, self, {target})
    IN IF ancestor = None THEN [err |-> "TreeError", val |-> 0]
       ELSE [err |-> "", val |-> up_sum(t, self, ancestor) + up_sum(t, target, ancestor)]

(***************************************************************************)
(* Farthest leaf, farthest node, midpoint.  With topology_only a step      *)
(* counts 1.0, which is Unit.                                              *)
(***************************************************************************)
RECURSIVE get_farthest_leaf(_, _, _)

\* the bug of comparing with `>`: the first of several farthest leaves wins
RECURSIVE farthest_leaf_loop_strict(_, _, _, _, _)
farthest_leaf_loop_strict(t, chs, topology_only, max_node, max_dist) ==
    IF Len(chs) = 0 THEN [node |-> max_node, dist |-> max_dist]
    ELSE LET ch == Head(chs)
             r == get_farthest_leaf(t, ch, topology_only)
             d == r.dist + (IF topology_only THEN Unit ELSE t.dist[ch])
         IN IF d > max_dist
            THEN farthest_leaf_loop_strict(t, Tail(chs), topology_only, r.node, d)
            ELSE farthest_leaf_loop_strict(t, Tail(chs), topology_only, max_node, max_dist)

\* for ch in self.children: ... if d>=max_dist: max_dist = d; max_node = node
RECURSIVE farthest_leaf_loop(_, _, _, _, _)
farthest_leaf_loop(t, chs, topology_only, max_node, max_dist) ==
    IF Len(chs) = 0 THEN [node |-> max_node, dist |-> max_dist]
    ELSE LET ch == Head(chs)
             r == get_farthest_leaf(t, ch, topology_only)
             d == r.dist + (IF topology_only THEN Unit ELSE t.dist[ch])
         IN IF d >= max_dist
            THEN farthest_leaf_loop(t, Tail(chs), topology_only, r.node, d)
            ELSE farthest_leaf_loop(t, Tail(chs), topology_only, max_node, max_dist)

get_farthest_leaf(t, self, topology_only) ==
    IF is_leaf(t, self) THEN [node |-> self, dist |-> 0]
    ELSE farthest_leaf_loop(t, t.children[self], topology_only, None, 0)

\* for ch in current.children: if ch != prev: ...
RECURSIVE farthest_sisters(_, _, _, _, _, _)
farthest_sisters(t, chs, prev, topology_only, cdist, best) ==
    IF Len(chs) = 0 THEN best
    ELSE LET ch == Head(chs)
             r == IF ~is_leaf(t, ch) THEN get_farthest_leaf(t, ch, topology_only)
                  ELSE [node |-> ch, dist |-> 0]
             fdist == r.dist + (IF topology_only THEN Unit ELSE t.dist[ch])
             better == ch /= prev /\ cdist + fdist > best.dist
         IN farthest_sisters(t, Tail(chs), prev, topology_only, cdist,
                             IF better THEN [node |-> r.node, dist |-> cdist + fdist] ELSE best)

\* while current: ...; prev = current; cdist += prev.dist; current = prev.up
RECURSIVE farthest_up(_, _, _, _, _, _)
farthest_up(t, prev, current, topology_only, cdist, best) ==
    IF ~Truthy(t, current) THEN best
    ELSE farthest_up(t, current, t.up[current], topology_only, cdist + t.dist[current],
                     farthest_sisters(t, t.children[current], prev, topology_only, cdist, best))

get_farthest_node(t, self, topology_only) ==
    farthest_up(t, self, t.up[self], topology_only, t.dist[self],
                get_farthest_leaf(t, self, topology_only))

RECURSIVE get_tree_root(_, _)
get_tree_root(t, root) == IF t.up[root] /= None THEN get_tree_root(t, t.up[root]) ELSE root

\* while current: cdist += current.dist; if cdist > middist: break; else: current = current.up
\* (middist = A2B_dist / 2.0, so cdist > middist is 2 * cdist > A2B_dist)
RECURSIVE midpoint_walk(_, _, _, _)
midpoint_walk(t, current, cdist, A2B_dist) ==
    IF ~Truthy(t, current) THEN current
    ELSE IF 2 * (cdist + t.dist[current]) > A2B_dist THEN current
    ELSE midpoint_walk(t, t.up[current], cdist + t.dist[current], A2B_dist)

get_midpoint_outgroup(t, self) ==
    LET root == get_tree_root(t, self)
        nA == get_farthest_leaf(t, root, FALSE).node
        A2B_dist == get_farthest_node(t, nA, FALSE).dist
    IN midpoint_walk(t, nA, 0, A2B_dist)

(***************************************************************************)
(* Topology management.  Each operation takes the object graph and yields  *)
(* the graph it leaves, with the error raised if any.                      *)
(***************************************************************************)
\* TreeNode(): children = [], up = None, dist = 1.0
construct(t, n) ==
    [t EXCEPT !.children[n] = <<>>, !.up[n] = None, !.dist[n] = Unit]

\* `child` is the node given, or the node just constructed when none was given;
\* `d` is float(dist), or NoArg
add_child(t, self, child, d) ==
    LET t1 == IF d /= NoArg THEN [t EXCEPT !.dist[child] = d] ELSE t
        t2 == [t1 EXCEPT !.children[self] = Append(@, child)]
    IN [t2 EXCEPT !.up[child] = self]

\* An optional dist or support argument: None, a number, a string that
\* float() parses to val, or a string that float() rejects.
NoneArg == [kind |-> "none", val |-> 0]
NoNameArg == "<None>"

\* float(x): ValueError on a string that is no number
float(a) == [err |-> a.kind = "junk", val |-> a.val]

\* the whole call self.add_child(child, name, dist, support), child being the
\* node given or the one just constructed.  ret is the node returned, support
\* the value given to the feature `support`, which no other operation reads.
add_child_call(t, nm, self, child, name_arg, dist_arg, support_arg) ==
    LET nm1 == IF name_arg /= NoNameArg THEN [nm EXCEPT ![child] = name_arg] ELSE nm
        d == float(dist_arg)
        s == float(support_arg)
        t1 == IF dist_arg.kind /= "none" /\ ~d.err THEN [t EXCEPT !.dist[child] = d.val] ELSE t
    IN IF dist_arg.kind /= "none" /\ d.err
       THEN [t |-> t, name |-> nm1, err |-> "TreeError", ret |-> None, support |-> NoneArg]
       ELSE IF support_arg.kind /= "none" /\ s.err
       THEN [t |-> t1, name |-> nm1, err |-> "TreeError", ret |-> None, support |-> NoneArg]
       ELSE [t |-> add_child(t1, self, child, NoArg), name |-> nm1, err |-> "", ret |-> child,
             support |-> IF support_arg.kind /= "none" THEN [kind |-> "num", val |-> s.val]
                         ELSE NoneArg]

remove_child(t, self, child) ==
    IF child \notin Range(t.children[self])
    THEN [t |-> t, err |-> "TreeError"]
    ELSE [t |-> [t EXCEPT !.children[self] = RemoveFirst(@, child), !.up[child] = None],
          err |-> ""]

\* for ch in self.children: self.up.add_child(ch)
RECURSIVE add_children(_, _, _)
add_children(t, parent, chs) ==
    IF Len(chs) = 0 THEN t
    ELSE add_children(add_child(t, parent, Head(chs), NoArg), parent, Tail(chs))

\* the bug of splicing the children up without removing the node
delete_keep_self(t, self) ==
    IF Truthy(t, t.up[self])
    THEN [t |-> add_children(t, t.up[self], t.children[self]), err |-> ""]
    ELSE [t |-> t, err |-> ""]

delete(t, self) ==
    IF Truthy(t, t.up[self])
    THEN remove_child(add_children(t, t.up[self], t.children[self]), t.up[self], self)
    ELSE [t |-> t, err |-> ""]

\* `sys` is not imported by the module: the warning for a node that is not a
\* root raises NameError
unroot(t, self) ==
    IF t.up[self] /= None THEN [t |-> t, err |-> "NameError"]
    ELSE IF Len(t.children[self]) = 2
    THEN IF ~is_leaf(t, t.children[self][1]) THEN delete(t, t.children[self][1])
         ELSE IF ~is_leaf(t, t.children[self][2]) THEN delete(t, t.children[self][2])
         ELSE [t |-> t, err |-> "TreeError"]
    ELSE [t |-> t, err |-> ""]

detach(t, self) ==
    IF Truthy(t, t.up[self])
    THEN IF self \notin Range(t.children[t.up[self]])
         THEN [t |-> t, err |-> "ValueError"]
         ELSE [t |-> [t EXCEPT !.children[t.up[self]] = RemoveFirst(@, self), !.up[self] = None],
               err |-> ""]
    ELSE [t |-> t, err |-> ""]

(***************************************************************************)
(* prune.                                                                  *)
(***************************************************************************)
get_leaves_by_name(t, nm, self, wanted) ==
    SelectSeq(get_leaves(t, self), LAMBDA n : nm[n] = wanted)

\* the nodes the selector list resolves to: a str element to the leaves of
\* that name, a node element to itself
node_instances(t, nm, self, names, nodes) ==
    UNION {Range(get_leaves_by_name(t, nm, self, l)) : l \in names} \cup nodes

prune_error(t, nm, self, names, nodes, method) ==
    IF ~(node_instances(t, nm, self, names, nodes) \subseteq Range(get_leaves(t, self)))
    THEN "TreeError"
    ELSE IF method \notin {"crop", "keep"} THEN "TreeError"
    ELSE ""

to_delete(t, nm, self, names, nodes, method) ==
    IF method = "crop" THEN node_instances(t, nm, self, names, nodes)
    ELSE Range(get_leaves(t, self)) \ node_instances(t, nm, self, names, nodes)

\* while current is not None and (current == n or len(current.children)==1)
RECURSIVE prune_walk(_, _, _)
prune_walk(t, n, current) ==
    IF current /= None /\ (current = n \/ Len(t.children[current]) = 1)
    THEN LET next == t.up[current]
             r == delete(t, current)
         IN IF r.err /= "" THEN r ELSE prune_walk(r.t, n, next)
    ELSE [t |-> t, err |-> ""]

\* for n in to_delete, in the order `order` the set is iterated in
RECURSIVE prune_each(_, _)
prune_each(t, order) ==
    IF Len(order) = 0 THEN [t |-> t, err |-> ""]
    ELSE LET r == prune_walk(t, Head(order), Head(order))
         IN IF r.err /= "" THEN r ELSE prune_each(r.t, Tail(order))

prune(t, nm, self, names, nodes, method, order) ==
    IF prune_error(t, nm, self, names, nodes, method) /= ""
    THEN [t |-> t, err |-> prune_error(t, nm, self, names, nodes, method), removed |-> {}]
    ELSE LET r == prune_each(t, order)
         IN [t |-> r.t, err |-> r.err, removed |-> to_delete(t, nm, self, names, nodes, method)]

(***************************************************************************)
(* set_outgroup.                                                           *)
(***************************************************************************)
\* n = outgroup; while n.up is not self: n = n.up   (None.up raises)
RECURSIVE down_branch(_, _, _)
down_branch(t, n, self) ==
    IF n = None THEN None
    ELSE IF t.up[n] = self THEN n
    ELSE down_branch(t, t.up[n], self)

\* the bug of dropping the swapped branch length (hijo.dist keeps its own value)
RECURSIVE swap_loop_keep_dist(_, _, _, _, _, _)
swap_loop_keep_dist(t, self, padre, hijo, fue_padre, buffered_dist) ==
    IF hijo = self
    THEN [t |-> t, padre |-> padre, fue_padre |-> fue_padre, buffered_dist |-> buffered_dist]
    ELSE LET t1 == [t EXCEPT !.children[padre] = Append(@, hijo),
                             !.children[hijo] = RemoveFirst(@, padre),
                             !.up[padre] = fue_padre]
         IN swap_loop_keep_dist(t1, self, hijo, t1.up[hijo], padre, t.dist[hijo])

\* the parent-child swapping loop, then the statements up to `outgroup2.dist = 0`
RECURSIVE swap_loop(_, _, _, _, _, _)
swap_loop(t, self, padre, hijo, fue_padre, buffered_dist) ==
    IF hijo = self
    THEN [t |-> t, padre |-> padre, fue_padre |-> fue_padre, buffered_dist |-> buffered_dist]
    ELSE LET t1 == [t EXCEPT !.children[padre] = Append(@, hijo),
                             !.children[hijo] = RemoveFirst(@, padre),
                             !.dist[hijo] = buffered_dist,
                             !.up[padre] = fue_padre]
         IN swap_loop(t1, self, hijo, t1.up[hijo], padre, t.dist[hijo])

connect_down_branch(t, self, outgroup, parent_outgroup, connector) ==
    LET r == swap_loop(t, self, parent_outgroup, t.up[parent_outgroup], None,
                       t.dist[parent_outgroup])
        t1 == [r.t EXCEPT !.children[r.padre] = Append(@, connector)]
        t2 == [t1 EXCEPT !.up[connector] = r.padre]
        t3 == [t2 EXCEPT !.up[r.padre] = r.fue_padre]
        t4 == [t3 EXCEPT !.dist[connector] = @ + r.buffered_dist]
        t5 == [t4 EXCEPT !.children[parent_outgroup] = RemoveFirst(@, outgroup)]
    IN [t5 EXCEPT !.dist[parent_outgroup] = 0]

\* `fresh` is the node self.__class__() would create; `flip` is the outcome of
\* self.children.sort(), which orders the two children by object identity.
\* The result: the graph, the error raised, whether `fresh` was created, and
\* outgroup2 with the sum of the two branch lengths before the final split.
set_outgroup(t, self, outgroup, fresh, flip) ==
    LET parent_outgroup == t.up[outgroup]
        n == down_branch(t, outgroup, self)
        t1 == [t EXCEPT !.children[self] = RemoveFirst(@, n)]
        rest == t1.children[self]
        made == Len(rest) > 1
        t2 == IF made
              THEN [construct(t1, fresh) EXCEPT !.children[fresh] = rest,
                              !.children[self] = <<>>,
                              !.dist[fresh] = 0,
                              !.up = [x \in Nodes |-> IF x \in Range(rest) THEN fresh ELSE @[x]]]
              ELSE t1
        down_branch_connector == IF made THEN fresh ELSE rest[1]
        t3 == IF parent_outgroup /= self
              THEN connect_down_branch(t2, self, outgroup, parent_outgroup, down_branch_connector)
              ELSE t2
        outgroup2 == IF parent_outgroup /= self THEN parent_outgroup ELSE down_branch_connector
        total == t3.dist[outgroup2] + t3.dist[outgroup]
        middist == total \div 2
        t4 == [t3 EXCEPT !.up = [x \in Nodes |-> IF x \in {outgroup, outgroup2} THEN self ELSE @[x]],
                         !.children[self] = IF flip THEN <<outgroup2, outgroup>>
                                            ELSE <<outgroup, outgroup2>>,
                         !.dist = [x \in Nodes |-> IF x \in {outgroup, outgroup2} THEN middist ELSE @[x]]]
    IN IF self = outgroup
       THEN [t |-> t, err |-> "", made |-> FALSE, outgroup2 |-> None, total |-> 0]
       ELSE IF n = None
       THEN [t |-> t, err |-> "AttributeError", made |-> FALSE, outgroup2 |-> None, total |-> 0]
       ELSE IF Len(rest) = 0
       THEN [t |-> t1, err |-> "IndexError", made |-> FALSE, outgroup2 |-> None, total |-> 0]
       ELSE [t |-> t4, err |-> "", made |-> made, outgroup2 |-> outgroup2, total |-> total]

(***************************************************************************)
(* Trees a program can build by add_child on fresh nodes (or the parser):  *)
(* nodes 1..k numbered level by level, so that the parents are             *)
(* non-decreasing and each precedes its children, children in increasing   *)
(* order.  Every ordered forest has exactly one such numbering.            *)
(***************************************************************************)
RECURSIVE ParentVecs(_, _)
ParentVecs(k, maxRoots) ==
    IF k = 1 THEN {<<None>>}
    ELSE UNION {{Append(f, p) :
                    p \in {q \in 0..(k - 1) : q >= f[k - 1] /\ (q = 0 => k <= maxRoots)}} :
                f \in ParentVecs(k - 1, maxRoots)}

UpOf(f, k) == [n \in Nodes |-> IF n <= k THEN f[n] ELSE None]

ChildrenOf(f, k) == [n \in Nodes |-> SortedSeq({c \in 1..k : f[c] = n})]

DistPatterns == {"default", "distinct"}

DistOf(p, k) ==
    [n \in Nodes |-> IF p = "distinct" /\ n <= k THEN (2 ^ (n - 1)) * Unit ELSE Unit]

(***************************************************************************)
(* Specification of the queries: a forest, then any query on it.           *)
(***************************************************************************)
InitQuery ==
    \E k \in 1..MaxNodes : \E f \in ParentVecs(k, k) : \E p \in DistPatterns :
        /\ up = UpOf(f, k)
        /\ children = ChildrenOf(f, k)
        /\ dist = DistOf(p, k)
        /\ name = [n \in Nodes |-> NoName]
        /\ alloc = 1..k
        /\ last = NoLast
        /\ pre = [up |-> UpOf(f, k), children |-> ChildrenOf(f, k), dist |-> DistOf(p, k)]
        /\ calls = 0

Traverse(self) ==
    /\ last' = [NoLast EXCEPT !.op = "traverse", !.self = self,
                              !.seq = iter_descendants_preorder(Cur, self)]
    /\ UNCHANGED <<up, children, dist, name, alloc, pre, calls>>

TraversePostorder(self) ==
    /\ last' = [NoLast EXCEPT !.op = "traverse_postorder", !.self = self,
                              !.seq = iter_descendants_postorder(Cur, self)]
    /\ UNCHANGED <<up, children, dist, name, alloc, pre, calls>>

GetCommonAncestor(self, target) ==
    /\ last' = [NoLast EXCEPT !.op = "get_common_ancestor", !.self = self, !.arg = target,
                              !.node = get_common_ancestor(Cur, self, {target})]
    /\ UNCHANGED <<up, children, dist, name, alloc, pre, calls>>

GetDistance(self, target) ==
    /\ LET r == get_distance(Cur, self, target)
       IN last' = [NoLast EXCEPT !.op = "get_distance", !.self = self, !.arg = target,
                                 !.val = r.val, !.err = r.err]
    /\ UNCHANGED <<up, children, dist, name, alloc, pre, calls>>

NextQuery ==
    \/ \E self \in alloc : Traverse(self)
    \/ \E self \in alloc : TraversePostorder(self)
    \/ \E self \in alloc, target \in alloc : GetCommonAncestor(self, target)
    \/ \E self \in alloc, target \in alloc : GetDistance(self, target)

SpecQuery == InitQuery /\ [][NextQuery]_vars

(***************************************************************************)
(* Specification of the searches: a tree, with default or pairwise         *)
(* distinct branch lengths or with a root of dist 0, then any search.      *)
(***************************************************************************)
SearchPatterns == DistPatterns \cup {"rootzero"}

DistOfSearch(p, k) ==
    IF p = "rootzero" THEN [DistOf("default", k) EXCEPT ![1] = 0] ELSE DistOf(p, k)

InitSearch ==
    \E k \in 1..MaxNodes : \E f \in ParentVecs(k, 1) : \E p \in SearchPatterns :
        /\ up = UpOf(f, k)
        /\ children = ChildrenOf(f, k)
        /\ dist = DistOfSearch(p, k)
        /\ name = [n \in Nodes |-> NoName]
        /\ alloc = 1..k
        /\ last = NoLast
        /\ pre = [up |-> UpOf(f, k), children |-> ChildrenOf(f, k), dist |-> DistOfSearch(p, k)]
        /\ calls = 0

GetFarthestLeaf(self, topology_only) ==
    /\ LET r == get_farthest_leaf(Cur, self, topology_only)
       IN last' = [NoLast EXCEPT !.op = "get_farthest_leaf", !.self = self,
                                 !.flag = topology_only, !.node = r.node, !.val = r.dist]
    /\ UNCHANGED <<up, children, dist, name, alloc, pre, calls>>

GetFarthestNode(self, topology_only) ==
    /\ LET r == get_farthest_node(Cur, self, topology_only)
       IN last' = [NoLast EXCEPT !.op = "get_farthest_node", !.self = self,
                                 !.flag = topology_only, !.node = r.node, !.val = r.dist]
    /\ UNCHANGED <<up, children, dist, name, alloc, pre, calls>>

GetMidpointOutgroup(self) ==
    /\ last' = [NoLast EXCEPT !.op = "get_midpoint_outgroup", !.self = self,
                              !.node = get_midpoint_outgroup(Cur, self)]
    /\ UNCHANGED <<up, children, dist, name, alloc, pre, calls>>

NextSearch ==
    \/ \E self \in alloc, topology_only \in BOOLEAN : GetFarthestLeaf(self, topology_only)
    \/ \E self \in alloc, topology_only \in BOOLEAN : GetFarthestNode(self, topology_only)
    \/ \E self \in alloc : GetMidpointOutgroup(self)

SpecSearch == InitSearch /\ [][NextSearch]_vars

(***************************************************************************)
(* Specification of rerooting: a tree, then up to MaxReroot calls of       *)
(* set_outgroup on any node, with any node under it as the outgroup.       *)
(***************************************************************************)
InitTree ==
    \E k \in 1..MaxNodes : \E f \in ParentVecs(k, 1) : \E p \in DistPatterns :
        /\ up = UpOf(f, k)
        /\ children = ChildrenOf(f, k)
        /\ dist = DistOf(p, k)
        /\ name = [n \in Nodes |-> NoName]
        /\ alloc = 1..k
        /\ last = NoLast
        /\ pre = [up |-> UpOf(f, k), children |-> ChildrenOf(f, k), dist |-> DistOf(p, k)]
        /\ calls = 0

SetOutgroup(self, outgroup, flip) ==
    /\ calls < MaxReroot
    /\ outgroup \in Range(iter_descendants_preorder(Cur, self))
    /\ LET fresh == Min(Nodes \ alloc)
           r == set_outgroup(Cur, self, outgroup, fresh, flip)
       IN /\ up' = r.t.up
          /\ children' = r.t.children
          /\ dist' = r.t.dist
          /\ alloc' = IF r.made THEN alloc \cup {fresh} ELSE alloc
          /\ last' = [NoLast EXCEPT !.op = "set_outgroup", !.self = self, !.arg = outgroup,
                                    !.node = r.outgroup2, !.val = r.total, !.err = r.err]
    /\ pre' = Cur
    /\ calls' = calls + 1
    /\ UNCHANGED name

NextReroot ==
    \E self \in alloc, outgroup \in alloc, flip \in BOOLEAN : SetOutgroup(self, outgroup, flip)

SpecReroot == InitTree /\ [][NextReroot]_vars

(***************************************************************************)
(* Specification of topology management: a forest of up to MaxTopoNodes    *)
(* nodes, then up to MaxTopoCalls calls of add_child, remove_child, detach *)
(* and delete.  add_child takes any existing node as the child, attached   *)
(* or not, or none; a call that would make a node its own descendant is    *)
(* left out, since no traversal of such a graph ends.                      *)
(***************************************************************************)
InitTopo ==
    \E k \in 1..MaxTopoNodes : \E f \in ParentVecs(k, k) :
        /\ up = UpOf(f, k)
        /\ children = ChildrenOf(f, k)
        /\ dist = DistOf("distinct", k)
        /\ name = [n \in Nodes |-> NoName]
        /\ alloc = 1..k
        /\ last = NoLast
        /\ pre = [up |-> UpOf(f, k), children |-> ChildrenOf(f, k), dist |-> DistOf("distinct", k)]
        /\ calls = 0

RECURSIVE Below(_, _)
Below(t, n) == {n} \cup UNION {Below(t, c) : c \in Range(t.children[n])}

Applied(r, opname, self, arg) ==
    /\ up' = r.t.up
    /\ children' = r.t.children
    /\ dist' = r.t.dist
    /\ last' = [NoLast EXCEPT !.op = opname, !.self = self, !.arg = arg, !.err = r.err]
    /\ pre' = Cur
    /\ calls' = calls + 1
    /\ UNCHANGED name

AddChild(self, child, d) ==
    /\ calls < MaxTopoCalls
    /\ self \notin Below(Cur, child)
    /\ Applied([t |-> add_child(Cur, self, child, d), err |-> ""], "add_child", self, child)
    /\ UNCHANGED alloc

AddNewChild(self, d) ==
    /\ calls < MaxTopoCalls
    /\ Nodes \ alloc /= {}
    /\ LET child == Min(Nodes \ alloc)
       IN /\ Applied([t |-> add_child(construct(Cur, child), self, child, d), err |-> ""],
                     "add_child", self, child)
          /\ alloc' = alloc \cup {child}

RemoveChild(self, child) ==
    /\ calls < MaxTopoCalls
    /\ Applied(remove_child(Cur, self, child), "remove_child", self, child)
    /\ UNCHANGED alloc

Detach(self) ==
    /\ calls < MaxTopoCalls
    /\ Applied(detach(Cur, self), "detach", self, None)
    /\ UNCHANGED alloc

Delete(self) ==
    /\ calls < MaxTopoCalls
    /\ Applied(delete(Cur, self), "delete", self, None)
    /\ UNCHANGED alloc

DistArgs == {NoArg, 3 * Unit}

NextTopo ==
    \/ \E self \in alloc, child \in alloc, d \in DistArgs : AddChild(self, child, d)
    \/ \E self \in alloc, d \in DistArgs : AddNewChild(self, d)
    \/ \E self \in alloc, child \in alloc : RemoveChild(self, child)
    \/ \E self \in alloc : Detach(self)
    \/ \E self \in alloc : Delete(self)

SpecTopo == InitTopo /\ [][NextTopo]_vars

(***************************************************************************)
(* Specification of pruning: a tree whose nodes are named "A" and "B",     *)
(* then up to MaxPrune calls of prune on any node, with a selector list of *)
(* up to MaxSel names and nodes, and any method.                           *)
(***************************************************************************)
NameOf(n) == IF n % 2 = 1 THEN "A" ELSE "B"

SelNames == {"A", "B", "Z"}

Methods == {"keep", "crop", "cut"}

InitNamed ==
    \E k \in 1..MaxNodes : \E f \in ParentVecs(k, 1) :
        /\ up = UpOf(f, k)
        /\ children = ChildrenOf(f, k)
        /\ dist = DistOf("default", k)
        /\ name = [n \in Nodes |-> IF n <= k THEN NameOf(n) ELSE NoName]
        /\ alloc = 1..k
        /\ last = NoLast
        /\ pre = [up |-> UpOf(f, k), children |-> ChildrenOf(f, k), dist |-> DistOf("default", k)]
        /\ calls = 0

RECURSIVE Perms(_)
Perms(S) == IF S = {} THEN {<<>>} ELSE UNION {{<<x>> \o q : q \in Perms(S \ {x})} : x \in S}

Prune(self, names, nodes, method) ==
    /\ calls < MaxPrune
    /\ Cardinality(names) + Cardinality(nodes) <= MaxSel
    /\ \E order \in Perms(to_delete(Cur, name, self, names, nodes, method)) :
          LET r == prune(Cur, name, self, names, nodes, method, order)
          IN /\ up' = r.t.up
             /\ children' = r.t.children
             /\ dist' = r.t.dist
             /\ last' = [NoLast EXCEPT !.op = "prune", !.self = self, !.names = names,
                                       !.nodes = nodes, !.method = method,
                                       !.set = r.removed, !.err = r.err]
    /\ pre' = Cur
    /\ calls' = calls + 1
    /\ UNCHANGED <<name, alloc>>

NextPrune ==
    \E self \in alloc, names \in SUBSET SelNames, nodes \in SUBSET alloc, method \in Methods :
        Prune(self, names, nodes, method)

SpecPrune == InitNamed /\ [][NextPrune]_vars

(***************************************************************************)
(* Specification of one edit: a tree, then one call of add_child with its  *)
(* optional arguments, of delete or of unroot.                             *)
(***************************************************************************)
NameArgs == {NoNameArg, "A"}
DistArgValues ==
    {NoneArg, [kind |-> "num", val |-> 3 * Unit], [kind |-> "num", val |-> 0 - Unit],
     [kind |-> "text", val |-> 3 * Unit], [kind |-> "junk", val |-> 0]}
SupportArgValues ==
    {NoneArg, [kind |-> "num", val |-> Unit], [kind |-> "num", val |-> 0 - Unit],
     [kind |-> "junk", val |-> 0]}

AddChildOnce(self, child, name_arg, dist_arg, support_arg) ==
    /\ last.op = "init"
    /\ child \in alloc => self \notin Below(Cur, child)
    /\ LET r == add_child_call(IF child \in alloc THEN Cur ELSE construct(Cur, child), name,
                               self, child, name_arg, dist_arg, support_arg)
       IN /\ up' = r.t.up
          /\ children' = r.t.children
          /\ dist' = r.t.dist
          /\ name' = r.name
          /\ last' = [NoLast EXCEPT !.op = "add_child", !.self = self, !.arg = child,
                                    !.dist = dist_arg, !.support = support_arg,
                                    !.node = r.ret, !.val = r.support.val, !.err = r.err]
    /\ alloc' = alloc \cup {child}
    /\ pre' = Cur
    /\ calls' = calls + 1

DeleteOnce(self) ==
    /\ last.op = "init"
    /\ Applied(delete(Cur, self), "delete", self, None)
    /\ UNCHANGED alloc

UnrootOnce(self) ==
    /\ last.op = "init"
    /\ Applied(unroot(Cur, self), "unroot", self, None)
    /\ UNCHANGED alloc

\* the node a call without `child` constructs
FreshNode == IF Nodes \ alloc = {} THEN {} ELSE {Min(Nodes \ alloc)}

NextEdit ==
    \/ \E self \in alloc, child \in alloc \cup FreshNode, name_arg \in NameArgs,
          dist_arg \in DistArgValues, support_arg \in SupportArgValues :
           AddChildOnce(self, child, name_arg, dist_arg, support_arg)
    \/ \E self \in alloc : DeleteOnce(self)
    \/ \E self \in alloc : UnrootOnce(self)

SpecEdit == InitTree /\ [][NextEdit]_vars

(***************************************************************************)
(* Specification of populate: a freshly created root, one call of populate *)
(* with a size up to MaxPopulate, one step per iteration of its loop.      *)
(* While the loop runs last.op is "populate_loop", last.arg is size and    *)
(* last.val is prev_size; the loop may allocate up to MaxPopNodes nodes.   *)
(***************************************************************************)
InitFresh ==
    /\ up = [n \in Nodes |-> None]
    /\ children = [n \in Nodes |-> <<>>]
    /\ dist = [n \in Nodes |-> Unit]
    /\ name = [n \in Nodes |-> NoName]
    /\ alloc = {1}
    /\ last = NoLast
    /\ pre = [up |-> [n \in Nodes |-> None], children |-> [n \in Nodes |-> <<>>],
              dist |-> [n \in Nodes |-> Unit]]
    /\ calls = 0

\* random.sample(charset, 5) joined, random.random() in [0, 1)
RandomNames == {"abcde"}
RandomDists == {0, Unit \div 2}

\* [n for n in self.traverse() if len(n)==1], or those with len(n)==0 when
\* sampling from the former raises ValueError
populate_targets(t, self) ==
    LET all == Range(iter_descendants_preorder(t, self))
        one == {n \in all : len(t, n) = 1}
    IN IF one /= {} THEN one ELSE {n \in all : len(t, n) = 0}

\* prev_size = len(self)
PopulateCall(self, size) ==
    /\ last.op = "init"
    /\ last' = [NoLast EXCEPT !.op = "populate_loop", !.self = self, !.arg = size,
                              !.val = len(Cur, self)]
    /\ pre' = Cur
    /\ calls' = calls + 1
    /\ UNCHANGED <<up, children, dist, name, alloc>>

\* one iteration: target.add_child(name=tname, dist=tdist)
PopulateStep(target, tname, tdist) ==
    /\ last.op = "populate_loop"
    /\ len(Cur, last.self) /= last.arg + last.val
    /\ target \in populate_targets(Cur, last.self)
    /\ Cardinality(alloc) < MaxPopNodes
    /\ LET child == Min(Nodes \ alloc)
           t == add_child(construct(Cur, child), target, child, tdist)
       IN /\ up' = t.up
          /\ children' = t.children
          /\ dist' = t.dist
          /\ name' = [name EXCEPT ![child] = tname]
          /\ alloc' = alloc \cup {child}
    /\ UNCHANGED <<last, pre, calls>>

\* the loop condition is false: populate returns
PopulateReturn ==
    /\ last.op = "populate_loop"
    /\ len(Cur, last.self) = last.arg + last.val
    /\ last' = [last EXCEPT !.op = "populate"]
    /\ UNCHANGED <<up, children, dist, name, alloc, pre, calls>>

NextPopulate ==
    \/ \E self \in alloc, size \in 0..MaxPopulate : PopulateCall(self, size)
    \/ \E target \in alloc, tname \in RandomNames, tdist \in RandomDists :
           PopulateStep(target, tname, tdist)
    \/ PopulateReturn

SpecPopulate == InitFresh /\ [][NextPopulate]_vars

(***************************************************************************)
(* What the claims speak of, stated without the code's algorithms.         *)
(***************************************************************************)
RECURSIVE AncOrSelf(_, _)
AncOrSelf(t, n) == IF n = None THEN {} ELSE {n} \cup AncOrSelf(t, t.up[n])

RECURSIVE TreeRoot(_, _)
TreeRoot(t, n) == IF t.up[n] = None THEN n ELSE TreeRoot(t, t.up[n])

RECURSIVE DfsPreorder(_, _)
RECURSIVE DfsEach(_, _)
DfsEach(t, kids) ==
    IF Len(kids) = 0 THEN <<>> ELSE DfsPreorder(t, Head(kids)) \o DfsEach(t, Tail(kids))
DfsPreorder(t, n) == <<n>> \o DfsEach(t, t.children[n])

Subtree(t, n) == Range(DfsPreorder(t, n))

LeafSet(t, n) == {x \in Subtree(t, n) : Len(t.children[x]) = 0}

CommonAnc(t, a, b) == AncOrSelf(t, a) \cap AncOrSelf(t, b)

Lowest(t, a, b) ==
    CHOOSE n \in CommonAnc(t, a, b) : \A m \in CommonAnc(t, a, b) : m \in AncOrSelf(t, n)

PathUp(t, a, top) == AncOrSelf(t, a) \ AncOrSelf(t, top)

Bipartitions(t, root) ==
    {{LeafSet(t, c), LeafSet(t, root) \ LeafSet(t, c)} : c \in Subtree(t, root) \ {root}}

\* the last call was set_outgroup with another node than self as the outgroup
Rerooted == last.op = "set_outgroup" /\ last.arg /= last.self

\* the leaves the selector of the last prune call denotes, and whether each of
\* its elements denotes a leaf of self
Selected == {l \in LeafSet(pre, last.self) : name[l] \in last.names} \cup last.nodes

AllDenoteLeaves ==
    /\ last.nodes \subseteq LeafSet(pre, last.self)
    /\ \A l \in last.names : \E n \in LeafSet(pre, last.self) : name[n] = l

Pruned(method) == last.op = "prune" /\ last.method = method /\ AllDenoteLeaves

(***************************************************************************)
(* The claims.                                                             *)
(***************************************************************************)
\* C1: after any sequence of add_child, remove_child, detach and delete calls,
\* every node c in some node p's children has c.up = p, occurs there exactly
\* once, and occurs in no other node's children.
C1_ChildHasOneParent ==
    \A p \in alloc : \A c \in Range(children[p]) :
        /\ up[c] = p
        /\ Count(children[p], c) = 1
        /\ \A q \in alloc \ {p} : c \notin Range(children[q])

\* C2: traverse("preorder") emits the node, then each child's whole subtree in
\* stored order before anything of the next child, every node exactly once.
C2_PreorderIsDepthFirst ==
    last.op = "traverse" =>
        /\ last.seq = DfsPreorder(Cur, last.self)
        /\ \A n \in Range(last.seq) : Count(last.seq, n) = 1

\* C3 as stated: a set_outgroup call that returns keeps get_distance(x, y) for
\* every pair of leaves x, y of the whole structure self belongs to.
C3_AllLeafDistancesKept ==
    (Rerooted /\ last.err = "") =>
        \A x, y \in LeafSet(pre, TreeRoot(pre, last.self)) :
            get_distance(Cur, x, y) = get_distance(pre, x, y)

\* C3 as amended: set_outgroup keeps get_distance(x, y) for every pair of
\* leaves x, y that were under self before the call (self may be an inner
\* node, whose distance to the leaves under it the rerooting changes).
C3_LeafDistancesUnderSelfKept ==
    Rerooted =>
        \A x, y \in LeafSet(pre, last.self) :
            get_distance(Cur, x, y) = get_distance(pre, x, y)

\* a call on an inner node that reversed at least one edge and moved weight
C3_Witness ==
    /\ Rerooted
    /\ last.err = ""
    /\ pre.up[last.self] /= None
    /\ pre.up[pre.up[last.arg]] \notin {None, last.self}
    /\ Cur.dist /= pre.dist

\* C4: after set_outgroup with a proper descendant, self has exactly two
\* children, one of them outgroup, both with up = self and with the same dist,
\* half of the sum of their two dist values before the final split.
C4_TwoBalancedChildren ==
    Rerooted =>
        /\ Len(children[last.self]) = 2
        /\ Cardinality(Range(children[last.self])) = 2
        /\ last.arg \in Range(children[last.self])
        /\ \A c \in Range(children[last.self]) : up[c] = last.self /\ 2 * dist[c] = last.val

\* C5: set_outgroup on the root, and a second one after it, keeps the set of
\* leaf bipartitions induced by the edges and the set of leaves.
C5_BipartitionsKept ==
    (Rerooted /\ pre.up[last.self] = None) =>
        /\ Bipartitions(Cur, last.self) = Bipartitions(pre, last.self)
        /\ LeafSet(Cur, last.self) = LeafSet(pre, last.self)

\* C6: after prune(S, "keep") with S a non-empty subset of the leaves of self
\* the leaves under self are exactly S; after prune(S, "crop") with S a proper
\* subset they are the former leaves minus S; the returned set is the set of
\* leaves removed.
C6_PruneLeavesExactly ==
    /\ (Pruned("keep") /\ Selected /= {}) =>
           /\ LeafSet(Cur, last.self) = Selected
           /\ last.set = LeafSet(pre, last.self) \ Selected
    /\ (Pruned("crop") /\ Selected /= LeafSet(pre, last.self)) =>
           /\ LeafSet(Cur, last.self) = LeafSet(pre, last.self) \ Selected
           /\ last.set = Selected

\* C7: after a successful prune on a root no node of the structure, the root
\* included, has exactly one child (stated for the trees in which no node had
\* exactly one child before the call, so that a violation is of prune's making).
C7_NoSingleChildAfterPrune ==
    (/\ last.op = "prune"
     /\ last.err = ""
     /\ pre.up[last.self] = None
     /\ \A n \in Subtree(pre, last.self) : Len(pre.children[n]) /= 1) =>
        \A n \in Subtree(Cur, last.self) : Len(children[n]) /= 1

\* C8: prune raises TreeError whenever an element of the selector, a name or a
\* node, denotes no current leaf of self, and then removes nothing.
C8_PruneRejectsNonLeaves ==
    (last.op = "prune" /\ ~AllDenoteLeaves) => (last.err = "TreeError" /\ Cur = pre)

\* C9: get_common_ancestor(a, b) is an ancestor-or-self of both, no proper
\* descendant of it is one too, and it is None for nodes of different trees.
C9_CommonAncestorIsLowest ==
    last.op = "get_common_ancestor" =>
        LET a == last.self
            b == last.arg
        IN IF CommonAnc(Cur, a, b) = {}
           THEN last.node = None
           ELSE /\ last.node \in CommonAnc(Cur, a, b)
                /\ \A d \in Subtree(Cur, last.node) \ {last.node} : d \notin CommonAnc(Cur, a, b)

\* two nodes in different branches below an inner node
C9_Witness ==
    /\ last.op = "get_common_ancestor"
    /\ last.node \notin {None, last.self, last.arg}
    /\ Cur.up[last.node] /= None

\* C10: get_distance(a, b) = get_distance(b, a) = the sum of dist over the
\* nodes on the two paths from a and from b up to, excluding, their lowest
\* common ancestor.
C10_DistanceSymmetricPathSum ==
    (last.op = "get_distance" /\ CommonAnc(Cur, last.self, last.arg) /= {}) =>
        LET a == last.self
            b == last.arg
            top == Lowest(Cur, a, b)
        IN /\ last.err = ""
           /\ last.val = Sum(Cur.dist, PathUp(Cur, a, top)) + Sum(Cur.dist, PathUp(Cur, b, top))
           /\ get_distance(Cur, b, a) = [err |-> "", val |-> last.val]

\* two nodes in different branches with different branch lengths
C10_Witness ==
    /\ last.op = "get_distance"
    /\ last.err = ""
    /\ Lowest(Cur, last.self, last.arg) \notin {last.self, last.arg}
    /\ Cur.dist[last.self] /= Cur.dist[last.arg]

\* the weight of the path from leaf l up to its ancestor a as the last search
\* call measures it: the sum of dist, or Unit per edge with topology_only
Weight(l, a) ==
    IF last.flag THEN Unit * Cardinality(PathUp(Cur, l, a)) ELSE Sum(Cur.dist, PathUp(Cur, l, a))

Farthest(a) == {l \in LeafSet(Cur, a) : \A m \in LeafSet(Cur, a) : Weight(m, a) <= Weight(l, a)}

Pos(seq, x) == Min({i \in 1..Len(seq) : seq[i] = x})

FarthestLeafOfInner == last.op = "get_farthest_leaf" /\ ~is_leaf(Cur, last.self)

\* C11 as stated: get_farthest_leaf on a non-leaf node returns a leaf under
\* self of maximal path weight, with that weight; of several such leaves it
\* returns the first in depth-first, left-to-right order.
C11_FarthestLeafFirstOfTies ==
    FarthestLeafOfInner =>
        /\ last.node \in Farthest(last.self)
        /\ last.val = Weight(last.node, last.self)
        /\ \A m \in Farthest(last.self) :
               Pos(DfsPreorder(Cur, last.self), last.node) <= Pos(DfsPreorder(Cur, last.self), m)

\* C11 as amended: of several leaves of maximal path weight it returns the
\* last in depth-first, left-to-right order.
C11_FarthestLeafLastOfTies ==
    FarthestLeafOfInner =>
        /\ last.node \in Farthest(last.self)
        /\ last.val = Weight(last.node, last.self)
        /\ \A m \in Farthest(last.self) :
               Pos(DfsPreorder(Cur, last.self), last.node) >= Pos(DfsPreorder(Cur, last.self), m)

\* several farthest leaves, at different depths of children
C11_Witness ==
    /\ FarthestLeafOfInner
    /\ ~last.flag
    /\ Cardinality(Farthest(last.self)) >= 2
    /\ \E m \in Farthest(last.self) : Cur.up[m] /= Cur.up[last.node]

Structure(t, n) == Subtree(t, TreeRoot(t, n))

\* C12: get_farthest_node() returns (n, d) with n a node of the structure,
\* d = self.get_distance(n), and no node of the structure, descendant,
\* ancestor or other, farther from self than d.
C12_FarthestNodeIsFarthest ==
    (last.op = "get_farthest_node" /\ ~last.flag) =>
        /\ last.node \in Structure(Cur, last.self)
        /\ last.val = get_distance(Cur, last.self, last.node).val
        /\ \A x \in Structure(Cur, last.self) : get_distance(Cur, last.self, x).val <= last.val

\* the walk from a to b: the nodes from a up to below their lowest common
\* ancestor, then those from below it down to b, each with the edge above it
RECURSIVE UpPath(_, _, _)
UpPath(t, a, top) == IF a = top THEN <<>> ELSE <<a>> \o UpPath(t, t.up[a], top)

Reverse(s) == [i \in 1..Len(s) |-> s[Len(s) + 1 - i]]

Walk(t, a, b) == UpPath(t, a, Lowest(t, a, b)) \o Reverse(UpPath(t, b, Lowest(t, a, b)))

RECURSIVE FirstOver(_, _, _, _)
FirstOver(t, walk, acc, half2) ==
    IF Len(walk) = 0 THEN None
    ELSE IF 2 * (acc + t.dist[Head(walk)]) > half2 THEN Head(walk)
    ELSE FirstOver(t, Tail(walk), acc + t.dist[Head(walk)], half2)

\* C13: get_midpoint_outgroup never returns None; with A the farthest leaf from
\* the root and B the farthest node from A, it returns the first node on the
\* walk from A to B at which the accumulated edge weight exceeds half of the
\* A-to-B distance, the root's own dist not being an edge.
C13_MidpointOnWalk ==
    last.op = "get_midpoint_outgroup" =>
        LET A == get_farthest_leaf(Cur, TreeRoot(Cur, last.self), FALSE).node
            B == get_farthest_node(Cur, A, FALSE)
        IN /\ last.node /= None
           /\ B.dist > 0 => last.node = FirstOver(Cur, Walk(Cur, A, B.node), 0, B.dist)

Edges(t, a, b) ==
    Cardinality(PathUp(t, a, Lowest(t, a, b))) + Cardinality(PathUp(t, b, Lowest(t, a, b)))

\* C19: get_farthest_node(topology_only=True) returns as distance the number
\* of edges between self and the returned node, the largest number of edges
\* from self to a leaf of the structure, whatever the dist values.
C19_TopologyOnlyCountsEdges ==
    (last.op = "get_farthest_node" /\ last.flag) =>
        /\ last.val = Unit * Edges(Cur, last.self, last.node)
        /\ \A l \in LeafSet(Cur, TreeRoot(Cur, last.self)) :
               Edges(Cur, last.self, l) <= Edges(Cur, last.self, last.node)
        /\ last.node \in LeafSet(Cur, TreeRoot(Cur, last.self))

\* C18: traverse(strategy="postorder") from a node emits every node of that
\* node's subtree exactly once and no other node, every node after all of its
\* descendants, and the children of each node in stored left-to-right order.
C18_PostorderChildrenFirst ==
    last.op = "traverse_postorder" =>
        /\ Range(last.seq) = Subtree(Cur, last.self)
        /\ Len(last.seq) = Cardinality(Subtree(Cur, last.self))
        /\ \A n \in Subtree(Cur, last.self) : \A d \in Subtree(Cur, n) \ {n} :
               Pos(last.seq, d) < Pos(last.seq, n)
        /\ \A n \in Subtree(Cur, last.self) : \A i, j \in 1..Len(Cur.children[n]) :
               i < j => \A x \in Subtree(Cur, Cur.children[n][i]) :
                            Pos(last.seq, x) < Pos(last.seq, Cur.children[n][j])

\* a node with two children of which the first has a child of its own
C18_Witness ==
    /\ last.op = "traverse_postorder"
    /\ Len(Cur.children[last.self]) >= 2
    /\ Len(Cur.children[Cur.children[last.self][1]]) >= 1
    /\ Cur.up[last.self] /= None
    /\ Len(last.seq) >= 4

\* C14: populate(n) on a freshly created single-node root, once it has
\* returned, leaves exactly n leaves under that root and no node with exactly
\* one child.
C14_PopulateExactLeaves ==
    (last.op = "populate" /\ last.arg >= 1) =>
        /\ Cardinality(LeafSet(Cur, last.self)) = last.arg
        /\ \A n \in Subtree(Cur, last.self) : Len(Cur.children[n]) /= 1

NotNonNegative(a) == a.kind = "junk" \/ (a.kind /= "none" /\ a.val < 0)

\* C15: add_child with a dist or support argument that is not a non-negative
\* number fails with a validation error and does not attach the child;
\* otherwise it appends the child as the last element of self.children, sets
\* child.up to self and returns the child.
C15_AddChildValidates ==
    last.op = "add_child" =>
        IF NotNonNegative(last.dist) \/ NotNonNegative(last.support)
        THEN /\ last.err = "TreeError"
             /\ children = pre.children
             /\ up = pre.up
        ELSE /\ last.err = ""
             /\ children[last.self] = Append(pre.children[last.self], last.arg)
             /\ up[last.arg] = last.self
             /\ last.node = last.arg

\* C16: n.delete() on a non-root node n with parent p removes n from
\* p.children and clears n.up, makes every former child of n a child of p
\* exactly once with up = p and its dist unchanged, and leaves the parent,
\* the children order and the dist of every other child of p and of every
\* other node unchanged; delete() on a root changes nothing.
C16_DeleteSplicesChildren ==
    last.op = "delete" =>
        LET n == last.self
            p == pre.up[n]
            moved == Range(pre.children[n])
        IN IF p = None THEN Cur = pre
           ELSE /\ n \notin Range(children[p])
                /\ up[n] = None
                /\ \A c \in moved :
                       Count(children[p], c) = 1 /\ up[c] = p /\ dist[c] = pre.dist[c]
                /\ Range(children[p]) = (Range(pre.children[p]) \ {n}) \cup moved
                /\ SelectSeq(children[p], LAMBDA x : x \notin moved)
                       = SelectSeq(pre.children[p], LAMBDA x : x /= n)
                /\ \A x \in alloc :
                       /\ dist[x] = pre.dist[x]
                       /\ x \notin moved \cup {n} => up[x] = pre.up[x]
                       /\ x \notin {n, p} => children[x] = pre.children[x]

\* an inner node with children is deleted from beside a sister
C16_Witness ==
    /\ last.op = "delete"
    /\ pre.up[last.self] /= None
    /\ Len(pre.children[last.self]) >= 2
    /\ Len(pre.children[pre.up[last.self]]) >= 2
    /\ pre.children[pre.up[last.self]][1] = last.self
    /\ last.err = ""

\* C17: unroot() on a root with exactly two children fails with a structure
\* error and changes nothing when both are leaves; otherwise it deletes the
\* first child that is not a leaf, after which the root has three or more
\* children and the set of leaves of the structure is the same.
C17_UnrootReachesThreeChildren ==
    (last.op = "unroot" /\ pre.up[last.self] = None /\ Len(pre.children[last.self]) = 2) =>
        LET first == pre.children[last.self][1]
            second == pre.children[last.self][2]
            gone == IF Len(pre.children[first]) > 0 THEN first ELSE second
        IN IF Len(pre.children[first]) = 0 /\ Len(pre.children[second]) = 0
           THEN last.err = "TreeError" /\ Cur = pre
           ELSE /\ last.err = ""
                /\ gone \notin Range(children[last.self])
                /\ up[gone] = None
                /\ Range(pre.children[gone]) \subseteq Range(children[last.self])
                /\ LeafSet(Cur, last.self) = LeafSet(pre, last.self)
                /\ Len(children[last.self]) >= 3

\* the nodes reached from the set S by at most k steps along children
RECURSIVE ReachDown(_, _, _)
ReachDown(t, S, k) ==
    IF k = 0 THEN S ELSE ReachDown(t, S \cup UNION {Range(t.children[x]) : x \in S}, k - 1)

WellFormed(t) ==
    /\ \A x \in Nodes : \A c \in Range(t.children[x]) : t.up[c] = x
    /\ \A x \in Nodes : \A c \in Range(t.children[x]) : Count(t.children[x], c) = 1
    /\ \A x, y \in Nodes : x /= y => Range(t.children[x]) \cap Range(t.children[y]) = {}
    /\ \A x \in Nodes : x \notin ReachDown(t, Range(t.children[x]), Cardinality(Nodes))

\* C20: for every proper descendant outgroup of self, set_outgroup completes
\* without error and leaves a well-formed tree: each node in a children
\* sequence has that parent as its up, no node is in two children sequences
\* or twice in one, there is no cycle, and every node that was under self is
\* still reachable from self.  When it raises, the structure is unchanged.
C20_SetOutgroupWellFormed ==
    Rerooted =>
        /\ last.err = ""
        /\ WellFormed(Cur)
        /\ Subtree(pre, last.self) \subseteq ReachDown(Cur, {last.self}, Cardinality(Nodes))
        /\ last.err /= "" => Cur = pre

\* C21: prune on a node self that is not the root of its structure modifies
\* only the subtree under self: self stays attached to its parent, and the
\* children sequence, up reference and dist of every node outside self's
\* subtree are unchanged (stated for the calls that return and remove some
\* but not all of the leaves under self).
C21_PruneStaysUnderSelf ==
    (/\ last.op = "prune"
     /\ last.err = ""
     /\ pre.up[last.self] /= None
     /\ last.set /= {}
     /\ last.set /= LeafSet(pre, last.self)) =>
        /\ up[last.self] = pre.up[last.self]
        /\ last.self \in Range(children[pre.up[last.self]])
        /\ \A x \in alloc \ Subtree(pre, last.self) :
               /\ children[x] = pre.children[x]
               /\ up[x] = pre.up[x]
               /\ dist[x] = pre.dist[x]
====
